---- MODULE Spec2Model ----
(***************************************************************************)
(* AI Research Assistant Pro (src/app.py): the Streamlit script main(),    *)
(* the search aggregator TavilyRetrievalSystem.advanced_search, the four   *)
(* agent calls of ResearchAgents, and the two renderers                    *)
(* process_markdown_to_html and generate_pdf.                              *)
(*                                                                         *)
(* Text is modelled by TLA+ strings, character by character: the regular   *)
(* expressions of the source are translated to operators that scan the     *)
(* string the way Python's re.sub does (leftmost match, lazy or greedy     *)
(* quantifiers as written, non-overlapping matches).                       *)
(***************************************************************************)
EXTENDS Integers, Sequences, FiniteSets, TLC

VARIABLES
    research_result,    \* st.session_state.research_result (None or text)
    research_query,     \* st.session_state.research_query
    env_groq,           \* os.getenv("GROQ_API_KEY")
    env_tavily,         \* os.getenv("TAVILY_API_KEY")
    pc,                 \* position of the script run inside main()
    query,              \* main: the text area's content in this script run
    all_results,        \* advanced_search: the list of formatted blocks
    ti,                 \* advanced_search: index of the next targeted query
    search_results,     \* main: value returned by advanced_search
    research_data,      \* main: value returned by research_agent
    summary,            \* main: value returned by summarizer_agent
    critique,           \* main: value returned by critic_agent
    calls,              \* the collaborator calls issued in this script run
    errors,             \* the st.error messages shown in this script run
    history,            \* outcome of every button click so far (history variable)
    processed_lines,    \* process_markdown_to_html: the list joined at line 329
    html_content,       \* main: process_markdown_to_html's result
    markdown_content,   \* main: the markdown download's data
    doc,                \* generate_pdf: the flowable list handed to doc.build
    pdf_status,         \* main: "none", "ok" (download offered) or "failed"
    json_data           \* main: the JSON download's data

vars == <<research_result, research_query, env_groq, env_tavily, pc, query,
          all_results, ti, search_results, research_data, summary, critique,
          calls, errors, history, processed_lines, html_content,
          markdown_content, doc, pdf_status, json_data>>

sessionVars == <<research_result, research_query>>
envVars == <<env_groq, env_tavily>>
searchVars == <<all_results, ti, search_results>>
stageVars == <<research_data, summary, critique>>
displayVars == <<processed_lines, html_content, markdown_content, doc,
                 pdf_status, json_data>>

(***************************************************************************)
(* Bounds of the model.                                                    *)
(***************************************************************************)
MaxRuns == 2        \* button clicks followed in one behaviour
MaxAtoms == 4       \* inline atoms in the body of a rendered single line
MaxLines == 3       \* lines of a rendered multi-line text

(***************************************************************************)
(* Python values: None and str.                                            *)
(***************************************************************************)
None == [isNone |-> TRUE, v |-> ""]
Some(s) == [isNone |-> FALSE, v |-> s]
\* Python truthiness of an Optional[str]: None and "" are falsy.
Truthy(x) == ~x.isNone /\ x.v # ""

(***************************************************************************)
(* Python str operations.                                                  *)
(***************************************************************************)
Ch(s, i) == SubSeq(s, i, i)
\* s[i-1:j] with 1-based inclusive bounds; "" when the slice is empty.
Slice(s, i, j) == IF i > j \/ i > Len(s) THEN "" ELSE SubSeq(s, i, IF j > Len(s) THEN Len(s) ELSE j)
\* s[n:]
Drop(s, n) == Slice(s, n + 1, Len(s))
\* s[i-1:].startswith(p)
At(s, i, p) == i >= 1 /\ i + Len(p) - 1 <= Len(s) /\ SubSeq(s, i, i + Len(p) - 1) = p
startswith(s, p) == At(s, 1, p)
Min(S) == CHOOSE x \in S : \A y \in S : x <= y
Max(S) == CHOOSE x \in S : \A y \in S : x >= y
\* Index of the first occurrence of p in s at or after from; 0 when there is none.
Find(s, p, from) ==
    LET hits == {j \in from..(Len(s) - Len(p) + 1) : At(s, j, p)}
    IN IF hits = {} THEN 0 ELSE Min(hits)
\* The characters str.strip() removes and \s matches.
Whitespace == {" ", "\n", "\t", "\r", "\f"}
strip(s) ==
    LET keep == {j \in 1..Len(s) : Ch(s, j) \notin Whitespace}
    IN IF keep = {} THEN "" ELSE SubSeq(s, Min(keep), Max(keep))
RECURSIVE split(_, _)
\* s.split(sep) for a one-character sep: always at least one field.
split(s, sep) ==
    LET k == Find(s, sep, 1)
    IN IF k = 0 THEN <<s>>
       ELSE <<Slice(s, 1, k - 1)>> \o split(Drop(s, k), sep)
RECURSIVE join(_, _)
\* sep.join(parts)
join(sep, parts) ==
    IF parts = <<>> THEN ""
    ELSE IF Len(parts) = 1 THEN parts[1]
    ELSE parts[1] \o sep \o join(sep, Tail(parts))
RECURSIVE repeat(_, _)
\* s * n
repeat(s, n) == IF n <= 0 THEN "" ELSE s \o repeat(s, n - 1)

(***************************************************************************)
(* The collaborators.  A call either raises or returns; what it returns is *)
(* drawn from a small set of values.                                       *)
(***************************************************************************)
\* A result entry of the search service: each field may be missing.
SearchHit == [title |-> Some("T"), url |-> Some("https://x.test/p"), content |-> None]
\* tavily.search outcomes: an exception, or a response mapping.
RaisedMsg == "boom"
Raises == [raises |-> TRUE, answer |-> None, results |-> <<>>]
EmptyResponse == [raises |-> FALSE, answer |-> None, results |-> <<>>]
HitResponse == [raises |-> FALSE, answer |-> Some("A"), results |-> <<SearchHit>>]
SearchOutcomes == {Raises, EmptyResponse, HitResponse}
\* chain.invoke outcomes of the four agents: None stands for an exception.
ResearchOutputs == {Some("facts")}
SummaryOutputs == {Some("summary")}
CritiqueOutputs == {Some("critique")}
Reports == {"", "# Title\n\n- a\n- **b**\nSee https://x.test/p now", "plain"}
WriterOutputs == {Some(r) : r \in Reports}
\* What the user may have typed into the text area.
Queries == {"", " \n", "q1", " q2"}
\* What os.getenv may return for a credential.
EnvValues == {None, Some(""), Some("key")}
\* datetime.now(), formatted: the time of the script run.
Clock == {"2025-01-01 00:00:00"}

Event(ev, fn, val) == [ev |-> ev, fn |-> fn, val |-> val]

(***************************************************************************)
(* TavilyRetrievalSystem                                                   *)
(***************************************************************************)
\* dict.get(key, default)
get(field, default) == IF field.isNone THEN default ELSE field.v

RECURSIVE format_results(_, _)
\* The loop of _format_response over response['results'], from entry i on.
format_results(results, i) ==
    IF i > Len(results) THEN <<>>
    ELSE << "**SOURCE " \o ToString(i) \o ":** " \o get(results[i].title, "No title"),
            "**URL:** " \o get(results[i].url, "No URL"),
            "**CONTENT:** " \o get(results[i].content, "No content"),
            repeat("-", 30) >>
         \o format_results(results, i + 1)

_format_response(response) ==
    LET insight == IF Truthy(response.answer)
                   THEN << "**INSIGHT:** " \o response.answer.v \o "\n" >>
                   ELSE <<>>
        sources == IF response.results # <<>>
                   THEN format_results(response.results, 1)
                   ELSE <<>>
    IN join("\n", insight \o sources)

\* The two targeted queries built from the user's query.
targeted_searches(q) ==
    << q \o " funding investment 2024 2025",
       q \o " latest news recent developments" >>

\* The value advanced_search returns for the collected blocks.
advanced_search_return(blocks) ==
    "\n\n" \o repeat("=", 50) \o join("\n\n", blocks)

(***************************************************************************)
(* main(): the button handler.                                             *)
(***************************************************************************)
\* ResearchAgents.__init__'s check of the two credentials.
keys_missing(groq, tavily) == ~Truthy(groq) \/ ~Truthy(tavily)

Outcome(q, ok, report) == [query |-> q, ok |-> ok, report |-> report]

\* The except clause of main: report and return; nothing is displayed.
\* events: the call that raised, as it goes to the log.
Fail(events, msg) ==
    /\ errors' = Append(errors, "Research failed: " \o msg)
    /\ calls' = calls \o events
    /\ history' = Append(history, Outcome(query, FALSE, ""))
    /\ pc' = "idle"

\* A script run starts: the outputs of the previous run are gone.
FreshDisplay ==
    /\ processed_lines' = <<>>
    /\ html_content' = None
    /\ markdown_content' = None
    /\ doc' = <<>>
    /\ pdf_status' = "none"
    /\ json_data' = None

FreshLocals ==
    /\ all_results' = <<>>
    /\ ti' = 0
    /\ search_results' = None
    /\ research_data' = None
    /\ summary' = None
    /\ critique' = None

\* Seeded fault: the query is tested without strip().
validation_error_NoStrip(q, groq, tavily) ==
    IF q = "" THEN "Please enter a research query"
    ELSE IF ~Truthy(groq) \/ ~Truthy(tavily)
         THEN "API keys not found. Please check your .env file"
    ELSE ""

\* The checks before the try block, then ResearchAgents.__init__'s own check:
\* the message reported, "" when the run may start.
validation_error(q, groq, tavily) ==
    IF strip(q) = "" THEN "Please enter a research query"
    ELSE IF ~Truthy(groq) \/ ~Truthy(tavily)
         THEN "API keys not found. Please check your .env file"
    ELSE IF keys_missing(groq, tavily)
         THEN "Research failed: API keys not found in environment variables"
    ELSE ""

\* The button is pressed with q in the text area: validation and set-up.
Click(q) ==
    /\ pc = "idle"
    /\ Len(history) < MaxRuns
    /\ query' = q
    /\ FreshDisplay
    /\ FreshLocals
    /\ calls' = <<>>
    /\ UNCHANGED <<sessionVars, envVars>>
    /\ IF validation_error(q, env_groq, env_tavily) # ""
       THEN /\ errors' = <<validation_error(q, env_groq, env_tavily)>>
            /\ history' = Append(history, Outcome(q, FALSE, ""))
            /\ pc' = "idle"
       ELSE /\ errors' = <<>>
            /\ history' = history
            /\ pc' = "primary"

\* advanced_search: the primary query.  Its exception is re-raised by
\* advanced_search as "Search failed: ..." and caught by main.
SearchPrimary ==
    /\ pc = "primary"
    /\ \E r \in SearchOutcomes :
         LET call == Event("call", "tavily.search", <<query, "advanced">>)
         IN IF r.raises
            THEN /\ Fail(<<call, Event("raise", "tavily.search", <<RaisedMsg>>)>>,
                         "Search failed: " \o RaisedMsg)
                 /\ UNCHANGED searchVars
            ELSE /\ all_results' = <<_format_response(r)>>
                 /\ ti' = 1
                 /\ calls' = calls \o <<call, Event("return", "tavily.search", <<r>>)>>
                 /\ pc' = "targeted"
                 /\ UNCHANGED <<errors, history, search_results>>
    /\ UNCHANGED <<sessionVars, envVars, query, stageVars, displayVars>>

\* Seeded fault: the except clause appends an empty block.
targeted_blocks_AppendOnRaise(blocks, r) ==
    IF r.raises THEN Append(blocks, "") ELSE Append(blocks, _format_response(r))

\* The inner try/except of the loop: a response is formatted and appended, an
\* exception leaves the list as it is.
targeted_blocks(blocks, r) ==
    IF r.raises THEN blocks ELSE Append(blocks, _format_response(r))

\* advanced_search: one iteration of the loop over the targeted queries, and
\* the return statement after the last one.
SearchTargeted ==
    /\ pc = "targeted"
    /\ \E r \in SearchOutcomes :
         LET tq == targeted_searches(query)[ti]
             call == Event("call", "tavily.search", <<tq, "basic">>)
             blocks == targeted_blocks(all_results, r)
             done == IF r.raises
                     THEN Event("raise", "tavily.search", <<RaisedMsg>>)
                     ELSE Event("return", "tavily.search", <<r>>)
         IN /\ all_results' = blocks
            /\ calls' = calls \o <<call, done>>
            /\ IF ti < Len(targeted_searches(query))
               THEN /\ ti' = ti + 1
                    /\ pc' = "targeted"
                    /\ UNCHANGED search_results
               ELSE /\ ti' = ti
                    /\ search_results' = Some(advanced_search_return(blocks))
                    /\ pc' = "research"
    /\ UNCHANGED <<sessionVars, envVars, query, stageVars, errors, history, displayVars>>

(***************************************************************************)
(* ResearchAgents: the four stages, as main calls them.                    *)
(***************************************************************************)
\* The arguments main passes to each agent.
research_agent_args == <<query, search_results.v>>
summarizer_agent_args == <<research_data.v>>
\* Seeded fault: the critic is handed the research data.
critic_agent_args_ResearchData == <<research_data.v>>
critic_agent_args == <<summary.v>>
writer_agent_args == <<research_data.v, summary.v, critique.v>>

\* Phase 3: research_data = agents.research_agent(query, search_results)
Research ==
    /\ pc = "research"
    /\ \E out \in ResearchOutputs \cup {None} :
         LET call == Event("call", "research_agent", research_agent_args)
         IN IF out.isNone
            THEN /\ Fail(<<call, Event("raise", "research_agent", <<RaisedMsg>>)>>, RaisedMsg)
                 /\ UNCHANGED research_data
            ELSE /\ research_data' = out
                 /\ calls' = calls \o <<call, Event("return", "research_agent", <<out.v>>)>>
                 /\ pc' = "summarize"
                 /\ UNCHANGED <<errors, history>>
    /\ UNCHANGED <<sessionVars, envVars, query, searchVars, summary, critique, displayVars>>

\* Phase 4: summary = agents.summarizer_agent(research_data)
Summarize ==
    /\ pc = "summarize"
    /\ \E out \in SummaryOutputs \cup {None} :
         LET call == Event("call", "summarizer_agent", summarizer_agent_args)
         IN IF out.isNone
            THEN /\ Fail(<<call, Event("raise", "summarizer_agent", <<RaisedMsg>>)>>, RaisedMsg)
                 /\ UNCHANGED summary
            ELSE /\ summary' = out
                 /\ calls' = calls \o <<call, Event("return", "summarizer_agent", <<out.v>>)>>
                 /\ pc' = "critique"
                 /\ UNCHANGED <<errors, history>>
    /\ UNCHANGED <<sessionVars, envVars, query, searchVars, research_data, critique, displayVars>>

\* Phase 5: critique = agents.critic_agent(summary)
Critique ==
    /\ pc = "critique"
    /\ \E out \in CritiqueOutputs \cup {None} :
         LET call == Event("call", "critic_agent", critic_agent_args)
         IN IF out.isNone
            THEN /\ Fail(<<call, Event("raise", "critic_agent", <<RaisedMsg>>)>>, RaisedMsg)
                 /\ UNCHANGED critique
            ELSE /\ critique' = out
                 /\ calls' = calls \o <<call, Event("return", "critic_agent", <<out.v>>)>>
                 /\ pc' = "write"
                 /\ UNCHANGED <<errors, history>>
    /\ UNCHANGED <<sessionVars, envVars, query, searchVars, research_data, summary, displayVars>>

\* Seeded fault: the summary is stored in place of the final report.
StoreResults_StoresSummary(final_report) ==
    /\ research_result' = summary
    /\ research_query' = query

\* What main stores once writer_agent has returned final_report.
StoreResults(final_report) ==
    /\ research_result' = Some(final_report)
    /\ research_query' = query

\* Phase 6: final_report = agents.writer_agent(research_data, summary, critique),
\* then the two session-state assignments; the script goes on to the display.
Write ==
    /\ pc = "write"
    /\ \E out \in WriterOutputs \cup {None} :
         LET call == Event("call", "writer_agent", writer_agent_args)
         IN IF out.isNone
            THEN /\ Fail(<<call, Event("raise", "writer_agent", <<RaisedMsg>>)>>, RaisedMsg)
                 /\ UNCHANGED sessionVars
            ELSE /\ StoreResults(out.v)
                 /\ calls' = calls \o <<call, Event("return", "writer_agent", <<out.v>>)>>
                 /\ history' = Append(history, Outcome(query, TRUE, out.v))
                 /\ pc' = "display"
                 /\ UNCHANGED errors
    /\ UNCHANGED <<envVars, query, searchVars, stageVars, displayVars>>

\* Any other interaction reruns the script without the button pressed.
Rerun ==
    /\ pc = "idle"
    /\ FreshDisplay
    /\ calls' = <<>>
    /\ errors' = <<>>
    /\ pc' = "display"
    /\ UNCHANGED <<sessionVars, envVars, query, searchVars, stageVars, history>>

(***************************************************************************)
(* The regular expressions of the two renderers.  Each operator is         *)
(* re.sub(pattern, replacement, s) for one pattern of the source; s is one *)
(* line (it holds no "\n"), so "." matches every character of it.          *)
(***************************************************************************)
RECURSIVE bold_sub(_, _, _)
\* re.sub(r'\*\*(.*?)\*\*', open \1 close, s): the leftmost "**", then the
\* nearest "**" after it.
bold_sub(s, open, close) ==
    LET i == Find(s, "**", 1)
        j == IF i = 0 THEN 0 ELSE Find(s, "**", i + 2)
    IN IF j = 0 THEN s
       ELSE Slice(s, 1, i - 1) \o open \o Slice(s, i + 2, j - 1) \o close
            \o bold_sub(Drop(s, j + 1), open, close)

\* (?<!\*)\* : a star not preceded by a star.
StarOpeners(s) == {i \in 1..Len(s) : Ch(s, i) = "*" /\ (i = 1 \/ Ch(s, i - 1) # "*")}
\* \*(?!\*) : a star not followed by a star.
StarClosers(s) == {j \in 1..Len(s) : Ch(s, j) = "*" /\ (j = Len(s) \/ Ch(s, j + 1) # "*")}

\* Display back-end: (?<!\*)\*(.*?)\*(?!\*) tried at opener i; the lazy group
\* stops at the first closing star after i, which may be the very next
\* character.  0 when there is no match at i.
italic_end_html(s, i) ==
    LET ends == {j \in StarClosers(s) : j > i}
    IN IF ends = {} THEN 0 ELSE Min(ends)

\* Document back-end: (?<!\*)\*([^*]+?)\*(?!\*) tried at opener i; the group
\* is one or more characters other than "*", so the closing star is the first
\* star after i.
italic_end_pdf(s, i) ==
    LET j == Find(s, "*", i + 1)
    IN IF j >= i + 2 /\ j \in StarClosers(s) THEN j ELSE 0

RECURSIVE italic_sub_html(_, _)
\* re.sub(r'(?<!\*)\*(.*?)\*(?!\*)', r'<em>\1</em>', s), scanning from index from.
italic_sub_html(s, from) ==
    LET starts == {i \in StarOpeners(s) : i >= from /\ italic_end_html(s, i) # 0}
    IN IF starts = {} THEN Slice(s, from, Len(s))
       ELSE LET i == Min(starts)
                j == italic_end_html(s, i)
            IN Slice(s, from, i - 1) \o "<em>" \o Slice(s, i + 1, j - 1) \o "</em>"
               \o italic_sub_html(s, j + 1)

RECURSIVE italic_sub_pdf(_, _)
\* re.sub(r'(?<!\*)\*([^*]+?)\*(?!\*)', r'<i>\1</i>', s), scanning from index from.
italic_sub_pdf(s, from) ==
    LET starts == {i \in StarOpeners(s) : i >= from /\ italic_end_pdf(s, i) # 0}
    IN IF starts = {} THEN Slice(s, from, Len(s))
       ELSE LET i == Min(starts)
                j == italic_end_pdf(s, i)
            IN Slice(s, from, i - 1) \o "<i>" \o Slice(s, i + 1, j - 1) \o "</i>"
               \o italic_sub_pdf(s, j + 1)

\* The characters [^\s<>"{}|\\^[\]] excludes.
NotUrlChars == Whitespace \cup {"<", ">", "\"", "{", "}", "|", "\\", "^", "[", "]"}
\* Length of "https://" or "http://" at index i; 0 when neither is there.
scheme_len(s, i) ==
    IF At(s, i, "https://") THEN 8 ELSE IF At(s, i, "http://") THEN 7 ELSE 0
\* Last index of the greedy run [^\s<>"{}|\\^[\]]+ starting at index k; k - 1
\* when the run is empty.
url_run_end(s, k) ==
    LET stops == {e \in k..Len(s) : Ch(s, e) \in NotUrlChars}
    IN IF stops = {} THEN Len(s) ELSE Min(stops) - 1
\* Last index of the match of (https?://[^\s<>"{}|\\^[\]]+) at i; 0 if none.
url_end(s, i) ==
    LET n == scheme_len(s, i)
    IN IF n = 0 THEN 0
       ELSE IF url_run_end(s, i + n) < i + n THEN 0
       ELSE url_run_end(s, i + n)

RECURSIVE url_sub(_, _, _, _, _)
\* re.sub(r'(https?://[^\s<>"{}|\\^[\]]+)', a \1 b \1 c, s), scanning from index from.
url_sub(s, from, a, b, c) ==
    LET starts == {i \in from..Len(s) : url_end(s, i) # 0}
    IN IF starts = {} THEN Slice(s, from, Len(s))
       ELSE LET i == Min(starts)
                e == url_end(s, i)
                u == Slice(s, i, e)
            IN Slice(s, from, i - 1) \o a \o u \o b \o u \o c
               \o url_sub(s, e + 1, a, b, c)

(***************************************************************************)
(* process_markdown_to_html                                                *)
(***************************************************************************)
H3_OPEN == "<h3 style=\"color: #374151; margin-top: 1.5rem; margin-bottom: 0.8rem;\">"
H2_OPEN == "<h2 style=\"color: #1e40af; margin-top: 2rem; margin-bottom: 1rem; padding-bottom: 0.3rem; border-bottom: 2px solid #e2e8f0;\">"
H1_OPEN == "<h1 style=\"color: #1e40af; margin-top: 2.5rem; margin-bottom: 1.5rem; padding-bottom: 0.5rem; border-bottom: 3px solid #3b82f6;\">"
LI_OPEN == "<li style=\"margin-bottom: 0.5rem;\">"
P_OPEN == "<p style=\"margin-bottom: 1rem; line-height: 1.6;\">"
UL_OPEN == "<ul style=\"margin-bottom: 1.5rem; padding-left: 1.5rem;\">"
A_HREF == "<a href=\""
A_ATTRS == "\" target=\"_blank\" style=\"color: #3b82f6; text-decoration: underline;\">"

\* The two substitutions applied to bullet_text.
html_inline_bullet(text) ==
    italic_sub_html(bold_sub(text, "<strong>", "</strong>"), 1)

\* Seeded fault: the link pass runs before the bold and italic passes.
html_inline_paragraph_UrlFirst(text) ==
    italic_sub_html(bold_sub(url_sub(text, 1, A_HREF, A_ATTRS, "</a>"),
                             "<strong>", "</strong>"), 1)

\* The three substitutions applied to a paragraph line.
html_inline_paragraph(text) ==
    url_sub(italic_sub_html(bold_sub(text, "<strong>", "</strong>"), 1),
            1, A_HREF, A_ATTRS, "</a>")

\* The body of the loop for one stripped, non-empty line.
html_line(line) ==
    IF startswith(line, "### ") THEN H3_OPEN \o Drop(line, 4) \o "</h3>"
    ELSE IF startswith(line, "## ") THEN H2_OPEN \o Drop(line, 3) \o "</h2>"
    ELSE IF startswith(line, "# ") THEN H1_OPEN \o Drop(line, 2) \o "</h1>"
    ELSE IF startswith(line, "- ") \/ startswith(line, "* ")
         THEN LI_OPEN \o html_inline_bullet(strip(Drop(line, 2))) \o "</li>"
    ELSE P_OPEN \o html_inline_paragraph(line) \o "</p>"

RECURSIVE html_lines_KeepBlank(_)
\* Seeded fault: a blank line is not skipped but emitted as an empty paragraph.
html_lines_KeepBlank(lines) ==
    IF lines = <<>> THEN <<>>
    ELSE IF strip(Head(lines)) = "" THEN <<P_OPEN \o "</p>">> \o html_lines_KeepBlank(Tail(lines))
    ELSE <<html_line(strip(Head(lines)))>> \o html_lines_KeepBlank(Tail(lines))

RECURSIVE html_lines(_)
\* The loop over the lines: blank lines are skipped.
html_lines(lines) ==
    IF lines = <<>> THEN <<>>
    ELSE IF strip(Head(lines)) = "" THEN html_lines(Tail(lines))
    ELSE <<html_line(strip(Head(lines)))>> \o html_lines(Tail(lines))

\* <li[^>]*>.*?</li> tried at index i (DOTALL): index of the last character of
\* the match, 0 if none.
li_end(s, i) ==
    IF ~At(s, i, "<li") THEN 0
    ELSE LET g == Find(s, ">", i + 3)
             k == IF g = 0 THEN 0 ELSE Find(s, "</li>", g + 1)
         IN IF k = 0 THEN 0 ELSE k + 4

\* \s* from index k: the index after the whitespace run.
skip_space(s, k) ==
    LET stops == {e \in k..Len(s) : Ch(s, e) \notin Whitespace}
    IN IF stops = {} THEN Len(s) + 1 ELSE Min(stops)

RECURSIVE li_run_end(_, _)
\* (?:\s*<li[^>]*>.*?</li>)* after a match that ends at index e: the end of
\* the whole run.
li_run_end(s, e) ==
    LET n == li_end(s, skip_space(s, e + 1))
    IN IF n = 0 THEN e ELSE li_run_end(s, n)

RECURSIVE wrap_lists(_, _)
\* re.sub(r'(<li[^>]*>.*?</li>(?:\s*<li[^>]*>.*?</li>)*)', UL_OPEN \1 </ul>,
\*        html, flags=re.DOTALL), scanning from index from.
wrap_lists(s, from) ==
    LET starts == {i \in from..Len(s) : li_end(s, i) # 0}
    IN IF starts = {} THEN Slice(s, from, Len(s))
       ELSE LET i == Min(starts)
                e == li_run_end(s, li_end(s, i))
            IN Slice(s, from, i - 1) \o UL_OPEN \o Slice(s, i, e) \o "</ul>"
               \o wrap_lists(s, e + 1)

\* The value of processed_lines when the loop ends.
html_processed_lines(content) ==
    IF content = "" THEN <<>> ELSE html_lines(split(content, "\n"))

process_markdown_to_html(content) ==
    IF content = "" THEN ""
    ELSE wrap_lists(join("\n", html_processed_lines(content)), 1)

(***************************************************************************)
(* generate_pdf: the flowables appended to content.  The two characters    *)
(* outside ASCII are written as their escapes.                             *)
(***************************************************************************)
MICROSCOPE == "\\U0001F52C"
BULLET == "\\u2022"
Paragraph(text, style) == [type |-> "Paragraph", text |-> text, style |-> style]
Spacer(height) == [type |-> "Spacer", text |-> "", style |-> height]

\* The title, the query line, the timestamp line and the spacer.
pdf_preamble(q, now) ==
    << Paragraph(MICROSCOPE \o " AI Research Report", "CustomTitle"),
       Paragraph("<b>Query:</b> " \o q, "Normal"),
       Paragraph("<b>Generated:</b> " \o now, "Normal"),
       Spacer("0.3*inch") >>

\* The three substitutions applied to the whole stripped line.
pdf_inline(line) ==
    url_sub(italic_sub_pdf(bold_sub(line, "<b>", "</b>"), 1),
            1, "<link href=\"", "\">", "</link>")

\* The body of the loop for one stripped line: the flowables it appends.
pdf_line(line) ==
    IF line = "" THEN <<Spacer("0.1*inch")>>
    ELSE LET processed_line == pdf_inline(line)
         IN IF startswith(line, "# ")
            THEN <<Paragraph(Drop(processed_line, 2), "CustomHeading1")>>
            ELSE IF startswith(line, "## ")
            THEN <<Paragraph(Drop(processed_line, 3), "CustomHeading2")>>
            ELSE IF startswith(line, "### ")
            THEN <<Paragraph(Drop(processed_line, 4), "Heading3")>>
            ELSE IF startswith(line, "- ") \/ startswith(line, "* ")
            THEN <<Paragraph(BULLET \o " " \o Drop(processed_line, 2), "Normal")>>
            ELSE IF processed_line # ""
            THEN <<Paragraph(processed_line, "Normal")>>
            ELSE <<>>

RECURSIVE pdf_lines(_)
pdf_lines(lines) ==
    IF lines = <<>> THEN <<>>
    ELSE pdf_line(strip(Head(lines))) \o pdf_lines(Tail(lines))

\* The list content as generate_pdf hands it to doc.build.
generate_pdf(report_content, q, now) ==
    pdf_preamble(q, now) \o pdf_lines(split(report_content, "\n"))

(***************************************************************************)
(* main(): the display of the held report and the three downloads.         *)
(***************************************************************************)
\* if st.session_state.research_result: render it; otherwise the script ends.
Display ==
    /\ pc = "display"
    /\ IF Truthy(research_result)
       THEN /\ processed_lines' = html_processed_lines(research_result.v)
            /\ html_content' = Some(process_markdown_to_html(research_result.v))
            /\ pc' = "markdown"
       ELSE /\ UNCHANGED <<processed_lines, html_content>>
            /\ pc' = "idle"
    /\ UNCHANGED <<sessionVars, envVars, query, searchVars, stageVars, calls,
                   errors, history, markdown_content, doc, pdf_status, json_data>>

\* The f-string of the markdown download.
markdown_template(q, report, now) ==
    "# " \o MICROSCOPE \o " AI Research Report\n\n**Research Query:** " \o q
    \o "\n**Generated:** " \o now
    \o "\n**Powered by:** LLaMA-3.3-70B + Tavily Advanced Search\n\n---\n\n"
    \o report
    \o "\n\n---\n\n## Report Metadata\n- **Search Engine:** Tavily AI Search (Advanced)\n- **AI Model:** LLaMA-3.3-70B-Versatile via Groq\n- **Generated:** "
    \o now
    \o "\n\n*Generated by AI Research Assistant with comprehensive web search capabilities.*\n"

ExportMarkdown ==
    /\ pc = "markdown"
    /\ \E now \in Clock :
         markdown_content' = Some(markdown_template(research_query, research_result.v, now))
    /\ pc' = "pdf"
    /\ UNCHANGED <<sessionVars, envVars, query, searchVars, stageVars, calls,
                   errors, history, processed_lines, html_content, doc,
                   pdf_status, json_data>>

\* Seeded fault: no try/except, the exception ends the script run.
ExportPdf_Uncaught ==
    /\ pc = "pdf"
    /\ \E now \in Clock :
         doc' = generate_pdf(research_result.v, research_query, now)
    /\ \/ /\ pdf_status' = "ok"
          /\ pc' = "json"
       \/ /\ pdf_status' = "failed"
          /\ pc' = "idle"
    /\ UNCHANGED <<sessionVars, envVars, query, searchVars, stageVars, calls,
                   errors, history, processed_lines, html_content,
                   markdown_content, json_data>>

\* generate_pdf inside try/except: building the document may raise, which is
\* reported; the script goes on to the JSON download either way.
ExportPdf ==
    /\ pc = "pdf"
    /\ \E now \in Clock :
         doc' = generate_pdf(research_result.v, research_query, now)
    /\ \/ /\ pdf_status' = "ok"
          /\ UNCHANGED errors
       \/ /\ pdf_status' = "failed"
          /\ errors' = Append(errors, "PDF generation failed: " \o RaisedMsg)
    /\ pc' = "json"
    /\ UNCHANGED <<sessionVars, envVars, query, searchVars, stageVars, calls,
                   history, processed_lines, html_content, markdown_content,
                   json_data>>

ExportJson ==
    /\ pc = "json"
    /\ \E now \in Clock :
         json_data' = Some([query |-> research_query,
                            report |-> research_result.v,
                            timestamp |-> now,
                            metadata |-> [ai_model |-> "llama-3.3-70b-versatile",
                                          search_engine |-> "tavily_advanced"]])
    /\ pc' = "idle"
    /\ UNCHANGED <<sessionVars, envVars, query, searchVars, stageVars, calls,
                   errors, history, processed_lines, html_content,
                   markdown_content, doc, pdf_status>>

(***************************************************************************)
(* The application: a fresh session, then button clicks and reruns.        *)
(***************************************************************************)
Init ==
    /\ research_result = None
    /\ research_query = ""
    /\ env_groq \in EnvValues
    /\ env_tavily \in EnvValues
    /\ pc = "idle"
    /\ query = ""
    /\ all_results = <<>>
    /\ ti = 0
    /\ search_results = None
    /\ research_data = None
    /\ summary = None
    /\ critique = None
    /\ calls = <<>>
    /\ errors = <<>>
    /\ history = <<>>
    /\ processed_lines = <<>>
    /\ html_content = None
    /\ markdown_content = None
    /\ doc = <<>>
    /\ pdf_status = "none"
    /\ json_data = None

Next ==
    \/ \E q \in Queries : Click(q)
    \/ SearchPrimary
    \/ SearchTargeted
    \/ Research
    \/ Summarize
    \/ Critique
    \/ Write
    \/ Rerun
    \/ Display
    \/ ExportMarkdown
    \/ ExportPdf
    \/ ExportJson

Spec == Init /\ [][Next]_vars

(***************************************************************************)
(* The renderers on their own: a session that holds a report, which every  *)
(* script run displays and exports.  The reports are single lines built    *)
(* from inline atoms behind a block prefix, and texts of a few short lines.*)
(***************************************************************************)
InlineAtoms == {"a", " ", "*", "**", "http://x", "."}
Prefixes == {"", "# ", "## ", "### ", "- ", "* "}
RECURSIVE Bodies(_)
Bodies(n) ==
    IF n = 0 THEN {""}
    ELSE Bodies(n - 1) \cup {b \o a : b \in Bodies(n - 1), a \in InlineAtoms}
InlineInputs == {p \o b : p \in Prefixes, b \in Bodies(MaxAtoms)}
BlockLines == {"", " ", "a", "# a", "- a", " * b ", "- a</li>b"}
RECURSIVE Texts(_)
Texts(n) ==
    IF n <= 1 THEN BlockLines
    ELSE Texts(n - 1) \cup {t \o "\n" \o l : t \in Texts(n - 1), l \in BlockLines}
RenderInputs == InlineInputs \cup Texts(MaxLines)

InitRender ==
    /\ \E report \in RenderInputs :
         /\ report # ""
         /\ research_result = Some(report)
         /\ history = <<Outcome("q1", TRUE, report)>>
    /\ research_query = "q1"
    /\ env_groq = Some("key")
    /\ env_tavily = Some("key")
    /\ pc = "idle"
    /\ query = "q1"
    /\ all_results = <<>>
    /\ ti = 0
    /\ search_results = None
    /\ research_data = None
    /\ summary = None
    /\ critique = None
    /\ calls = <<>>
    /\ errors = <<>>
    /\ processed_lines = <<>>
    /\ html_content = None
    /\ markdown_content = None
    /\ doc = <<>>
    /\ pdf_status = "none"
    /\ json_data = None

NextRender ==
    \/ Rerun
    \/ Display
    \/ ExportMarkdown
    \/ ExportPdf
    \/ ExportJson

SpecRender == InitRender /\ [][NextRender]_vars

(***************************************************************************)
(* Properties of the pipeline and of the session.                          *)
(***************************************************************************)
RECURSIVE LastSuccess(_)
\* The (query, report) pair of the most recent successful run of h; the
\* initial pair when no run succeeded.
LastSuccess(h) ==
    IF h = <<>> THEN <<"", None>>
    ELSE IF h[Len(h)].ok THEN <<h[Len(h)].query, Some(h[Len(h)].report)>>
    ELSE LastSuccess(SubSeq(h, 1, Len(h) - 1))

\* C1: at every moment, also in the middle of a run and after a failed one,
\* the held (query, report) pair is the query and the writer's report of the
\* most recent run in which the search and all four stages succeeded, or the
\* initial pair ("", None) when no run has succeeded yet.
C1_HeldPairIsLastSuccess ==
    <<research_query, research_result>> = LastSuccess(history)

\* A run succeeded, the next one failed in the critique stage, and the pair of
\* the first run is still held.
C1_Witness ==
    /\ Len(history) = 2
    /\ history[1].ok
    /\ ~history[2].ok
    /\ history[1].query # history[2].query
    /\ calls # <<>>
    /\ calls[Len(calls)] = Event("raise", "critic_agent", <<RaisedMsg>>)
    /\ research_result = Some(history[1].report)
    /\ Truthy(research_result)

\* The collaborator calls of one run, in the order the spec fixes.
StageOrder ==
    << "tavily.search", "tavily.search", "tavily.search", "research_agent",
       "summarizer_agent", "critic_agent", "writer_agent" >>

\* The value the k-th call of the log returned.
Returned(k) == calls[2 * k].val[1]

\* The search bundle as the log shows it: the formatted primary response and
\* the formatted responses of the targeted calls that returned.
RECURSIVE LoggedBlocks(_)
LoggedBlocks(k) ==
    IF k = 0 THEN <<>>
    ELSE LoggedBlocks(k - 1)
         \o (IF calls[2 * k].ev = "return" THEN <<_format_response(Returned(k))>> ELSE <<>>)

\* C2: the log of a run is a prefix of search (primary, two targeted),
\* research, summarize, critique, write; every call is followed by its own
\* return or exception before the next call; after a call raised nothing else
\* is called, unless it was a targeted search; and each stage is called with
\* exactly the outputs the earlier calls of the log returned.
C2_StagesInOrder ==
    /\ Len(calls) % 2 = 0
    /\ Len(calls) <= 2 * Len(StageOrder)
    /\ \A k \in 1..(Len(calls) \div 2) :
         /\ calls[2 * k - 1].ev = "call"
         /\ calls[2 * k - 1].fn = StageOrder[k]
         /\ calls[2 * k].ev \in {"return", "raise"}
         /\ calls[2 * k].fn = StageOrder[k]
         /\ (calls[2 * k].ev = "raise" /\ k \notin {2, 3}) => 2 * k = Len(calls)
         /\ k = 1 => calls[1].val = <<query, "advanced">>
         /\ k = 4 => calls[7].val = <<query, advanced_search_return(LoggedBlocks(3))>>
         /\ k = 5 => calls[9].val = <<Returned(4)>>
         /\ k = 6 => calls[11].val = <<Returned(5)>>
         /\ k = 7 => calls[13].val = <<Returned(4), Returned(5), Returned(6)>>

\* A run went through all seven calls and the writer returned.
C2_Witness ==
    /\ Len(calls) = 14
    /\ calls[14].ev = "return"
    /\ calls[14].fn = "writer_agent"
    /\ calls[4].ev = "raise"

\* Whether the k-th call of the log produced a block, when a targeted query
\* counts as failed if it raised, or if emptyFails and its response is empty.
Contributes(k, emptyFails) ==
    /\ calls[2 * k].ev = "return"
    /\ ~(emptyFails /\ Returned(k) = EmptyResponse)

RECURSIVE ExpectedBlocks(_, _)
ExpectedBlocks(k, emptyFails) ==
    IF k <= 1 THEN <<_format_response(Returned(1))>>
    ELSE ExpectedBlocks(k - 1, emptyFails)
         \o (IF Contributes(k, emptyFails) THEN <<_format_response(Returned(k))>> ELSE <<>>)

\* What C3 says for failing meaning raising, or raising and answering empty.
SearchBundleClaim(emptyFails) ==
    /\ (Len(calls) >= 2 /\ calls[2].ev = "raise") =>
          /\ search_results = None
          /\ pc = "idle"
          /\ Len(calls) = 2
          /\ errors = <<"Research failed: Search failed: " \o RaisedMsg>>
    /\ (Len(calls) >= 6 /\ calls[2].ev = "return") =>
          /\ ~search_results.isNone
          /\ all_results = ExpectedBlocks(3, emptyFails)

\* C3 as stated: a targeted query that raises or whose response is empty
\* contributes no block.
C3_Original == SearchBundleClaim(TRUE)

\* C3 (amended): if the primary call raises, advanced_search raises and returns
\* nothing; if it returns, advanced_search returns, and its blocks are the
\* primary block followed in query order by one block for each targeted call
\* that did not raise - an empty response is not a failure and contributes an
\* empty block.
C3_BundleBlocks == SearchBundleClaim(FALSE)

\* The first targeted call raised, the second answered empty: two blocks.
C3_Witness ==
    /\ pc = "research"
    /\ calls[4].ev = "raise"
    /\ calls[6].ev = "return"
    /\ Returned(3) = EmptyResponse
    /\ all_results = <<_format_response(Returned(1)), "">>

Blank(q) == \A j \in 1..Len(q) : Ch(q, j) \in Whitespace
Absent(x) == x.isNone \/ x.v = ""
RunPcs == {"primary", "targeted", "research", "summarize", "critique", "write"}

\* C4: a button click with a blank query, or with one of the two credentials
\* absent, reports an error and ends the script run at once: no search or
\* stage call is issued, and the held pair is unchanged.
C4_RejectedBeforeAnyCall ==
    [][ (/\ pc = "idle"
         /\ pc' # "display"
         /\ (Blank(query') \/ Absent(env_groq) \/ Absent(env_tavily)))
        => (/\ pc' = "idle"
            /\ Len(errors') = 1
            /\ calls' = <<>>
            /\ research_result' = research_result
            /\ research_query' = research_query) ]_vars

\* After a successful run, a click with a whitespace-only query was rejected.
C4_Witness ==
    /\ Len(history) = 2
    /\ history[1].ok
    /\ Blank(history[2].query)
    /\ history[2].query # ""
    /\ pc = "idle"
    /\ errors = <<"Please enter a research query">>
    /\ calls = <<>>
    /\ Truthy(research_result)

DisplayPcs == {"display", "markdown", "pdf", "json"}

\* C5: no step of the display and export part of the script changes the held
\* pair; the document export is followed by the structured-record export
\* also when it failed, and that export produces its record.
C5_ExportsReadOnly ==
    [][ /\ (pc \in DisplayPcs => /\ research_result' = research_result
                                 /\ research_query' = research_query)
        /\ (pc = "pdf" => pc' = "json")
        /\ (pc = "json" => ~json_data'.isNone /\ json_data'.v.report = research_result.v) ]_vars

\* The document export failed and the record export was still produced.
C5_Witness ==
    /\ pc = "idle"
    /\ pdf_status = "failed"
    /\ ~json_data.isNone
    /\ ~markdown_content.isNone
    /\ ~html_content.isNone
    /\ json_data.v.report = research_result.v

(***************************************************************************)
(* Properties of the two renderers, stated on the held report (the input), *)
(* on processed_lines and html_content (the display back-end's output) and *)
(* on doc (the document back-end's output).                                *)
(***************************************************************************)
Rendered == ~html_content.isNone
Built == pdf_status = "ok"
ReportLines == split(research_result.v, "\n")
Contains(s, p) == Find(s, p, 1) # 0
EndsWith(s, p) == Len(s) >= Len(p) /\ At(s, Len(s) - Len(p) + 1, p)
NonBlank(l) == \E j \in 1..Len(l) : Ch(l, j) \notin Whitespace
\* The block kind the parsing discipline gives a trimmed line.
Kind(l) ==
    IF startswith(l, "### ") THEN "h3"
    ELSE IF startswith(l, "## ") THEN "h2"
    ELSE IF startswith(l, "# ") THEN "h1"
    ELSE IF startswith(l, "- ") \/ startswith(l, "* ") THEN "li"
    ELSE "p"
OpenTag(k) ==
    CASE k = "h3" -> H3_OPEN [] k = "h2" -> H2_OPEN [] k = "h1" -> H1_OPEN
      [] k = "li" -> LI_OPEN [] OTHER -> P_OPEN
CloseTag(k) ==
    CASE k = "h3" -> "</h3>" [] k = "h2" -> "</h2>" [] k = "h1" -> "</h1>"
      [] k = "li" -> "</li>" [] OTHER -> "</p>"
DocStyle(k) ==
    CASE k = "h3" -> "Heading3" [] k = "h2" -> "CustomHeading2"
      [] k = "h1" -> "CustomHeading1" [] OTHER -> "Normal"

IsItem(block) == startswith(block, LI_OPEN)
\* Block i of blocks with the list container opened before the first item of
\* a run and closed after its last item.
Grouped(blocks, i) ==
    (IF IsItem(blocks[i]) /\ (i = 1 \/ ~IsItem(blocks[i - 1])) THEN UL_OPEN ELSE "")
    \o blocks[i]
    \o (IF IsItem(blocks[i]) /\ (i = Len(blocks) \/ ~IsItem(blocks[i + 1])) THEN "</ul>" ELSE "")

\* C6: the display output is the emitted blocks in order, each maximal run of
\* consecutive list items inside one list container of its own and nothing
\* else inside a container; the document output holds every list item as a
\* bulleted paragraph of its own.
C6_ListRunsGrouped ==
    /\ Rendered =>
         html_content.v = join("\n", [i \in 1..Len(processed_lines) |-> Grouped(processed_lines, i)])
    /\ Built =>
         \A i \in 1..Len(ReportLines) :
            Kind(strip(ReportLines[i])) = "li" =>
               /\ doc[4 + i].type = "Paragraph"
               /\ doc[4 + i].style = "Normal"
               /\ startswith(doc[4 + i].text, BULLET \o " ")

\* The indices of the lines that are not blank, in order.
RECURSIVE NonBlankIndices(_, _)
NonBlankIndices(lines, i) ==
    IF i > Len(lines) THEN <<>>
    ELSE (IF NonBlank(lines[i]) THEN <<i>> ELSE <<>>) \o NonBlankIndices(lines, i + 1)

PlainChars == {"a", "b", " ", ".", "\t"}
\* A line without markup characters.
Plain(l) == \A j \in 1..Len(l) : Ch(l, j) \in PlainChars

\* C7: the display back-end emits one block per non-blank line, in line
\* order, of the kind of that line, and nothing for blank lines; the document
\* back-end emits its four preamble elements and then one element per line in
\* line order, a spacer for a blank line and a paragraph in the style of the
\* line's kind otherwise.  A line without markup characters gives the
\* paragraph of its trimmed text in both.
C7_OneBlockPerLine ==
    /\ Rendered =>
         LET idx == NonBlankIndices(ReportLines, 1)
         IN /\ Len(processed_lines) = Len(idx)
            /\ \A k \in 1..Len(idx) :
                 LET l == strip(ReportLines[idx[k]])
                 IN /\ startswith(processed_lines[k], OpenTag(Kind(l)))
                    /\ EndsWith(processed_lines[k], CloseTag(Kind(l)))
                    /\ Plain(l) => processed_lines[k] = P_OPEN \o l \o "</p>"
    /\ Built =>
         /\ Len(doc) = 4 + Len(ReportLines)
         /\ doc[1].style = "CustomTitle"
         /\ doc[2] = Paragraph("<b>Query:</b> " \o research_query, "Normal")
         /\ startswith(doc[3].text, "<b>Generated:</b> ")
         /\ doc[4] = Spacer("0.3*inch")
         /\ \A i \in 1..Len(ReportLines) :
              LET l == strip(ReportLines[i])
              IN /\ ~NonBlank(ReportLines[i]) => doc[4 + i] = Spacer("0.1*inch")
                 /\ NonBlank(ReportLines[i]) =>
                      /\ doc[4 + i].type = "Paragraph"
                      /\ doc[4 + i].style = DocStyle(Kind(l))
                 /\ (NonBlank(ReportLines[i]) /\ Plain(l)) => doc[4 + i] = Paragraph(l, "Normal")

\* A heading, a blank line and a list item, rendered by both back-ends.
C7_Witness ==
    /\ research_result.v = "# a\n\n- a"
    /\ pc = "idle"
    /\ Len(processed_lines) = 2
    /\ Len(doc) = 7
    /\ doc[6] = Spacer("0.1*inch")

SingleLine == ~Contains(research_result.v, "\n")
TheLine == strip(research_result.v)
Stars(l) == {j \in 1..Len(l) : Ch(l, j) = "*"}
\* The only asterisks of l are one "*" or one "**".
Unmatched(l) ==
    \/ Cardinality(Stars(l)) = 1
    \/ Cardinality(Stars(l)) = 2 /\ Contains(l, "**")
\* l is pre ** x ** post with no other asterisk and x not empty.
MatchedBold(l) ==
    /\ Cardinality(Stars(l)) = 4
    /\ Find(l, "**", 1) # 0
    /\ Find(l, "**", Find(l, "**", 1) + 3) # 0

\* C8: in a paragraph line without a URL, in both back-ends, a matched pair
\* **x** comes out as a bold span of x with no asterisk left, and a lone "**"
\* or a lone "*" comes out as the same characters with no style markup.
C8_InlineDelimiters ==
    (SingleLine /\ Kind(TheLine) = "p" /\ ~Contains(TheLine, "http")) =>
       LET l == TheLine
           i == Find(l, "**", 1)
           j == Find(l, "**", i + 3)
           pre == Slice(l, 1, i - 1)
           x == Slice(l, i + 2, j - 1)
           post == Drop(l, j + 1)
       IN /\ (Unmatched(l) /\ Rendered) => html_content.v = P_OPEN \o l \o "</p>"
          /\ (Unmatched(l) /\ Built) => doc[5] = Paragraph(l, "Normal")
          /\ (MatchedBold(l) /\ Rendered) =>
                html_content.v = P_OPEN \o pre \o "<strong>" \o x \o "</strong>" \o post \o "</p>"
          /\ (MatchedBold(l) /\ Built) =>
                doc[5] = Paragraph(pre \o "<b>" \o x \o "</b>" \o post, "Normal")

\* C9: in the display back-end the text of a heading or of a list item is
\* transformed (bold, italic, hyperlink) exactly as a paragraph's text is.
C9_InlineInEveryBlock ==
    (SingleLine /\ Rendered /\ NonBlank(TheLine) /\ Kind(TheLine) # "p") =>
       LET k == Kind(TheLine)
           t == IF k = "li" THEN strip(Drop(TheLine, 2))
                ELSE IF k = "h1" THEN Drop(TheLine, 2)
                ELSE IF k = "h2" THEN Drop(TheLine, 3)
                ELSE Drop(TheLine, 4)
       IN processed_lines = <<OpenTag(k) \o html_inline_paragraph(t) \o CloseTag(k)>>

SampleUrl == "http://x"
HtmlLink(u) == A_HREF \o u \o A_ATTRS \o u \o "</a>"
DocLink(u) == "<link href=\"" \o u \o "\">" \o u \o "</link>"
\* The paragraph line l read as pre w URL w post, w one of "", "*", "**".
UrlAt(l) == Find(l, SampleUrl, 1)
UrlPre(l) == Slice(l, 1, UrlAt(l) - 1)
UrlTail(l) == Drop(l, UrlAt(l) + Len(SampleUrl) - 1)
UrlWrap(l) ==
    IF EndsWith(UrlPre(l), "**") /\ startswith(UrlTail(l), "**") THEN "**"
    ELSE IF EndsWith(UrlPre(l), "*") /\ startswith(UrlTail(l), "*") THEN "*"
    ELSE ""
UrlBefore(l) == Slice(UrlPre(l), 1, Len(UrlPre(l)) - Len(UrlWrap(l)))
UrlAfter(l) == Drop(UrlTail(l), Len(UrlWrap(l)))
\* A paragraph line with one URL, bare or wrapped, and no other asterisk.
UrlLine(l) ==
    /\ Kind(l) = "p"
    /\ UrlAt(l) # 0
    /\ ~Contains(UrlTail(l), "http")
    /\ Stars(UrlBefore(l)) = {}
    /\ Stars(UrlAfter(l)) = {}
\* The characters of post that directly follow and that the URL pattern admits.
UrlRun(post) ==
    LET stops == {e \in 1..Len(post) : Ch(post, e) \in NotUrlChars}
    IN IF stops = {} THEN post ELSE Slice(post, 1, Min(stops) - 1)
HtmlStyle(w, t) ==
    IF w = "**" THEN "<strong>" \o t \o "</strong>"
    ELSE IF w = "*" THEN "<em>" \o t \o "</em>" ELSE t
DocStyled(w, t) ==
    IF w = "**" THEN "<b>" \o t \o "</b>"
    ELSE IF w = "*" THEN "<i>" \o t \o "</i>" ELSE t

Divider == repeat("=", 50)
\* The positions of s at which the divider starts.
DividerAt(s) == {j \in 1..Len(s) : At(s, j, Divider)}

\* C11: the text advanced_search returns holds exactly one divider between
\* each adjacent pair of blocks - one divider less than there are blocks - and
\* none before the primary block: the text begins, after leading white space,
\* with the primary block.
C11_DividerBetweenBlocks ==
    ~search_results.isNone =>
       /\ Cardinality(DividerAt(search_results.v)) = Len(all_results) - 1
       /\ all_results[1] # "" => startswith(strip(search_results.v), all_results[1])

(***************************************************************************)
(* The parsing discipline shared by the two renderers.                     *)
(***************************************************************************)
\* The number of characters of the prefix of a trimmed line of kind k.
PrefixLen(k) ==
    CASE k = "h3" -> 4 [] k = "h2" -> 3 [] k = "h1" -> 2 [] k = "li" -> 2 [] OTHER -> 0
\* The text of the document element for the trimmed line l: the inline
\* transformation of what follows the prefix, behind a bullet for a list item.
DocText(l) ==
    (IF Kind(l) = "li" THEN BULLET \o " " ELSE "")
    \o pdf_inline(Drop(l, PrefixLen(Kind(l))))

\* C12: for every non-blank line the document back-end emits a paragraph in
\* the style of the kind the display back-end gives the line, and its text is
\* the inline transformation of the line without its prefix: the prefix, and
\* nothing but the prefix, is removed.
C12_SharedDiscipline ==
    Built =>
       \A i \in 1..Len(ReportLines) :
          LET l == strip(ReportLines[i])
          IN NonBlank(l) =>
                /\ startswith(processed_lines[Len(NonBlankIndices(ReportLines, 1))
                                              - Len(NonBlankIndices(ReportLines, i)) + 1],
                              OpenTag(Kind(l)))
                /\ doc[4 + i] = Paragraph(DocText(l), DocStyle(Kind(l)))

====
